---- MODULE Spec2Model ----
(***************************************************************************)
(* Model of the arithmetic parser in src/src/main.rs: the tokenizer        *)
(* (parse, parse_num), the operator-precedence stack evaluator             *)
(* (eval_expression, reduce), the numeric evaluation of the tree           *)
(* (Value::value, Expression::value) and the entry point eval_value.       *)
(*                                                                         *)
(* A text is a sequence of one-character strings.  Positions are 0-based   *)
(* as in the source, so bytes[pos] is written At(bytes, pos).              *)
(* f32 is modelled by exact rationals extended with +inf, -inf and NaN;    *)
(* rounding and the sign of zero are not represented.                      *)
(***************************************************************************)
EXTENDS Integers, Sequences, FiniteSets, TLC

VARIABLES input, pc, pst, est, result, history

vars == <<input, pc, pst, est, result, history>>

(***************************************************************************)
(* Bounds of the model.                                                    *)
(***************************************************************************)
MaxLen == 4
MaxOps == 3
MaxCalls == 2

(***************************************************************************)
(* Characters.                                                             *)
(***************************************************************************)
Digits == {"0", "1", "2", "3", "4", "5", "6", "7", "8", "9"}

IsDigit(c) == c \in Digits

At(bytes, pos) == bytes[pos + 1]

(***************************************************************************)
(* Token (main.rs 38-47).  Every token carries a text; it is empty for all *)
(* but Number.                                                             *)
(***************************************************************************)
Number(text) == [type |-> "Number", text |-> text]
LeftParen == [type |-> "LeftParen", text |-> <<>>]
RightParen == [type |-> "RightParen", text |-> <<>>]
OpAdd == [type |-> "OpAdd", text |-> <<>>]
OpSub == [type |-> "OpSub", text |-> <<>>]
OpMul == [type |-> "OpMul", text |-> <<>>]
OpDiv == [type |-> "OpDiv", text |-> <<>>]
None == [type |-> "None", text |-> <<>>]

(***************************************************************************)
(* parse_num (main.rs 96-111): consume the run of digits and points that   *)
(* starts at pos, then step pos back by one so that the caller's pos += 1  *)
(* lands on the first character after the run.                             *)
(***************************************************************************)
RECURSIVE parse_num_loop(_, _, _)
parse_num_loop(bytes, pos, num) ==
    IF pos >= Len(bytes)
    THEN [num |-> num, pos |-> pos]
    ELSE IF IsDigit(At(bytes, pos)) \/ At(bytes, pos) = "."
         THEN parse_num_loop(bytes, pos + 1, Append(num, At(bytes, pos)))
         ELSE [num |-> num, pos |-> pos]

\* parse_num without the step back of line 109
parse_num_no_step_back(bytes, pos) ==
    LET r == parse_num_loop(bytes, pos, <<>>)
    IN  [num |-> r.num, pos |-> r.pos]

parse_num(bytes, pos) ==
    LET r == parse_num_loop(bytes, pos, <<>>)
    IN  [num |-> r.num, pos |-> r.pos - 1]

(***************************************************************************)
(* parse (main.rs 49-94).  The state of the loop is the record             *)
(* [pos, tokens, last_token, panic]; ParseInit is lines 50-54.             *)
(***************************************************************************)
ParseInit == [pos |-> 0, tokens |-> <<>>, last_token |-> None, panic |-> FALSE]

\* lines 86-90: remember the token, push it, step over its last character
Emit(st, token, pos) ==
    [pos |-> pos + 1, tokens |-> Append(st.tokens, token),
     last_token |-> token, panic |-> FALSE]

\* line 61
ParseSpaceArm(bytes, st) == [st EXCEPT !.pos = st.pos + 1]

\* lines 62-66, 78-79
PunctToken(c) ==
    CASE c = "(" -> LeftParen
      [] c = ")" -> RightParen
      [] c = "+" -> OpAdd
      [] c = "*" -> OpMul
      [] c = "/" -> OpDiv

ParsePunctArm(bytes, st) == Emit(st, PunctToken(At(bytes, st.pos)), st.pos)

\* ParseMinusArm with a ')' also taken as the end of an operand
ParseMinusArmAfterParen(bytes, st) ==
    IF st.last_token.type \in {"Number", "RightParen"}
    THEN Emit(st, OpSub, st.pos)
    ELSE LET r == parse_num(bytes, st.pos + 1)
         IN  Emit(st, Number(<<"-">> \o r.num), r.pos)

\* ParseMinusArm with the sign left out of the Number's text
ParseMinusArmNoSign(bytes, st) ==
    IF st.last_token.type = "Number"
    THEN Emit(st, OpSub, st.pos)
    ELSE LET r == parse_num(bytes, st.pos + 1)
         IN  Emit(st, Number(r.num), r.pos)

\* lines 67-77
ParseMinusArm(bytes, st) ==
    IF st.last_token.type = "Number"
    THEN Emit(st, OpSub, st.pos)
    ELSE LET r == parse_num(bytes, st.pos + 1)
         IN  Emit(st, Number(<<"-">> \o r.num), r.pos)

\* ParseDigitArm with the scan of the number starting one character late
ParseDigitArmSkip(bytes, st) ==
    LET r == parse_num(bytes, st.pos + 1)
    IN  Emit(st, Number(r.num), r.pos)

\* ParseDigitArm that leaves pos on the first digit of the number
ParseDigitArmStay(bytes, st) ==
    LET r == parse_num(bytes, st.pos)
    IN  Emit(st, Number(r.num), st.pos - 1)

\* lines 80-82
ParseDigitArm(bytes, st) ==
    LET r == parse_num(bytes, st.pos)
    IN  Emit(st, Number(r.num), r.pos)

\* line 83
ParsePanicArm(bytes, st) == [st EXCEPT !.panic = TRUE]

IsPunct(c) == c \in {"(", ")", "+", "*", "/"}

IsUnknown(c) == ~(c = " " \/ IsPunct(c) \/ c = "-" \/ IsDigit(c))

\* one iteration of the loop, lines 60-90
ParseBody(bytes, st) ==
    LET c == At(bytes, st.pos)
    IN  CASE c = " " -> ParseSpaceArm(bytes, st)
          [] IsPunct(c) -> ParsePunctArm(bytes, st)
          [] c = "-" -> ParseMinusArm(bytes, st)
          [] IsDigit(c) -> ParseDigitArm(bytes, st)
          [] OTHER -> ParsePanicArm(bytes, st)

\* the whole of parse: iterate until pos >= bytes.len() (56-58) or a panic
RECURSIVE ParseRun(_, _)
ParseRun(bytes, st) ==
    IF st.panic \/ st.pos >= Len(bytes)
    THEN st
    ELSE ParseRun(bytes, ParseBody(bytes, st))

parse(bytes) == ParseRun(bytes, ParseInit)

(***************************************************************************)
(* f32 values: [t, n, d] with t = "fin" (the rational n/d in lowest terms, *)
(* d > 0), t = "inf" (n is the sign) or t = "nan".  Panic is the outcome   *)
(* of an unwrap that fails.                                                *)
(***************************************************************************)
Abs(x) == IF x < 0 THEN -x ELSE x

Sign(x) == IF x < 0 THEN -1 ELSE 1

RECURSIVE Gcd(_, _)
Gcd(a, b) == IF b = 0 THEN a ELSE Gcd(b, a % b)

Fin(n, d) ==
    LET g == Gcd(Abs(n), Abs(d))
    IN  [t |-> "fin", n |-> (Sign(d) * n) \div g, d |-> Abs(d) \div g]

Inf(s) == [t |-> "inf", n |-> s, d |-> 0]

NaN == [t |-> "nan", n |-> 0, d |-> 0]

Panic == [t |-> "panic", n |-> 0, d |-> 0]

\* l.value() + r.value(), main.rs 30
F32Add(a, b) ==
    CASE a.t = "nan" \/ b.t = "nan" -> NaN
      [] a.t = "inf" /\ b.t = "inf" -> IF a.n = b.n THEN a ELSE NaN
      [] a.t = "inf" /\ b.t = "fin" -> a
      [] a.t = "fin" /\ b.t = "inf" -> b
      [] OTHER -> Fin(a.n * b.d + b.n * a.d, a.d * b.d)

F32Neg(a) ==
    CASE a.t = "fin" -> Fin(-a.n, a.d)
      [] a.t = "inf" -> Inf(-a.n)
      [] OTHER -> a

\* l.value() - r.value(), main.rs 31
F32Sub(a, b) == F32Add(a, F32Neg(b))

\* l.value() * r.value(), main.rs 32
F32Mul(a, b) ==
    CASE a.t = "nan" \/ b.t = "nan" -> NaN
      [] a.t = "inf" /\ b.t = "inf" -> Inf(a.n * b.n)
      [] a.t = "inf" /\ b.t = "fin" -> IF b.n = 0 THEN NaN ELSE Inf(a.n * Sign(b.n))
      [] a.t = "fin" /\ b.t = "inf" -> IF a.n = 0 THEN NaN ELSE Inf(b.n * Sign(a.n))
      [] OTHER -> Fin(a.n * b.n, a.d * b.d)

\* l.value() / r.value(), main.rs 33: dividing by zero gives inf or NaN
F32Div(a, b) ==
    CASE a.t = "nan" \/ b.t = "nan" -> NaN
      [] a.t = "inf" /\ b.t = "inf" -> NaN
      [] a.t = "inf" /\ b.t = "fin" -> Inf(a.n * Sign(b.n))
      [] a.t = "fin" /\ b.t = "inf" -> Fin(0, 1)
      [] OTHER -> IF b.n = 0
                  THEN IF a.n = 0 THEN NaN ELSE Inf(Sign(a.n))
                  ELSE Fin(a.n * b.d, a.d * b.n)

(***************************************************************************)
(* num.parse().unwrap() (main.rs 21): str::parse::<f32> accepts an         *)
(* optional sign, then digits with at most one point and at least one      *)
(* digit; any other text is an Err and the unwrap panics.                  *)
(***************************************************************************)
DigitVal(c) ==
    CASE c = "0" -> 0 [] c = "1" -> 1 [] c = "2" -> 2 [] c = "3" -> 3
      [] c = "4" -> 4 [] c = "5" -> 5 [] c = "6" -> 6 [] c = "7" -> 7
      [] c = "8" -> 8 [] c = "9" -> 9

CountOf(s, c) == Cardinality({i \in 1..Len(s) : s[i] = c})

Unsigned(text) ==
    IF Len(text) > 0 /\ text[1] = "-" THEN Tail(text) ELSE text

ValidLiteral(text) ==
    LET u == Unsigned(text)
    IN  /\ \A i \in 1..Len(u) : IsDigit(u[i]) \/ u[i] = "."
        /\ CountOf(u, ".") <= 1
        /\ \E i \in 1..Len(u) : IsDigit(u[i])

\* the mantissa: all digits of u read as one decimal integer
RECURSIVE Mantissa(_, _)
Mantissa(u, acc) ==
    IF u = <<>> THEN acc
    ELSE IF Head(u) = "." THEN Mantissa(Tail(u), acc)
         ELSE Mantissa(Tail(u), 10 * acc + DigitVal(Head(u)))

RECURSIVE Pow10(_)
Pow10(k) == IF k = 0 THEN 1 ELSE 10 * Pow10(k - 1)

\* the number of digits after the point
FracLen(u) ==
    IF CountOf(u, ".") = 0 THEN 0
    ELSE Len(u) - (CHOOSE i \in 1..Len(u) : u[i] = ".")

ParseF32(text) ==
    IF ~ValidLiteral(text) THEN Panic
    ELSE LET u == Unsigned(text)
             s == IF text[1] = "-" THEN -1 ELSE 1
         IN  Fin(s * Mantissa(u, 0), Pow10(FracLen(u)))

(***************************************************************************)
(* Value and Expression (main.rs 4-16): a strict binary tree.              *)
(***************************************************************************)
Literal(num) == [kind |-> "Literal", num |-> num]

Expression(op, lv, rv) == [kind |-> op, l |-> lv, r |-> rv]

\* Value::value and Expression::value, main.rs 18-36
RECURSIVE ValueOf(_)
ValueOf(v) ==
    IF v.kind = "Literal" THEN ParseF32(v.num)
    ELSE LET l == ValueOf(v.l)
             r == ValueOf(v.r)
         IN  IF l.t = "panic" \/ r.t = "panic" THEN Panic
             ELSE CASE v.kind = "Add" -> F32Add(l, r)
                    [] v.kind = "Sub" -> F32Sub(l, r)
                    [] v.kind = "Mul" -> F32Mul(l, r)
                    [] v.kind = "Div" -> F32Div(l, r)

(***************************************************************************)
(* reduce (main.rs 113-125): pop operators until the operator stack is     *)
(* empty, each combining the two topmost values.  A stack is a sequence    *)
(* whose last element is the top.  panic is set when a value is missing.   *)
(***************************************************************************)
NodeKind(op) ==
    CASE op.type = "OpAdd" -> "Add"
      [] op.type = "OpSub" -> "Sub"
      [] op.type = "OpMul" -> "Mul"
      [] op.type = "OpDiv" -> "Div"

Pop(s) == SubSeq(s, 1, Len(s) - 1)

Top(s) == s[Len(s)]

RECURSIVE reduce(_, _)
reduce(stack, opstack) ==
    IF opstack = <<>>
    THEN [stack |-> stack, opstack |-> opstack, panic |-> FALSE]
    ELSE IF Len(stack) < 2
         THEN [stack |-> <<>>, opstack |-> Pop(opstack), panic |-> TRUE]
         ELSE LET rv == Top(stack)
                  lv == Top(Pop(stack))
                  node == Expression(NodeKind(Top(opstack)), lv, rv)
              IN  reduce(Append(Pop(Pop(stack)), node), Pop(opstack))

(***************************************************************************)
(* eval_expression (main.rs 127-168).  The recursion at LeftParen is an    *)
(* explicit sequence of frames, the last one being the running invocation; *)
(* each frame holds the invocation's stack and opstack (128-129) and       *)
(* whether it has left its loop and drained (165).  pos is the one shared  *)
(* position (&mut usize).  ret is the Value returned by the outermost      *)
(* invocation once done.                                                   *)
(***************************************************************************)
NewFrame == [stack |-> <<>>, opstack |-> <<>>, drained |-> FALSE]

NoValue == [kind |-> "Literal", num |-> <<>>]

\* eval_value line 174 and the entry of the outermost invocation
EvalInit ==
    [pos |-> 0, frames |-> <<NewFrame>>, panic |-> FALSE, done |-> FALSE,
     ret |-> NoValue]

Cur(st) == Top(st.frames)

SetCur(st, f) == [st EXCEPT !.frames = Append(Pop(st.frames), f)]

EvalPanic(st) == [st EXCEPT !.panic = TRUE]

\* line 136, then 162
EvalNumberArm(tokens, st) ==
    LET f == Cur(st)
        g == [f EXCEPT !.stack = Append(f.stack, Literal(At(tokens, st.pos).text))]
    IN  [SetCur(st, g) EXCEPT !.pos = st.pos + 1]

\* EvalAddSubArm without the drain of line 138
EvalAddSubArmNoDrain(tokens, st) ==
    LET f == Cur(st)
        g == [f EXCEPT !.opstack = Append(f.opstack, At(tokens, st.pos))]
    IN  [SetCur(st, g) EXCEPT !.pos = st.pos + 1]

\* lines 137-141, then 162
EvalAddSubArm(tokens, st) ==
    LET f == Cur(st)
        r == reduce(f.stack, f.opstack)
        g == [f EXCEPT !.stack = r.stack,
                       !.opstack = Append(r.opstack, At(tokens, st.pos))]
    IN  IF r.panic THEN EvalPanic(st)
        ELSE [SetCur(st, g) EXCEPT !.pos = st.pos + 1]

\* EvalMulDivArm that pushes the operator without resolving a pending one
EvalMulDivArmNoReduce(tokens, st) ==
    LET f == Cur(st)
        g == [f EXCEPT !.opstack = Append(f.opstack, At(tokens, st.pos))]
    IN  [SetCur(st, g) EXCEPT !.pos = st.pos + 1]

\* lines 142-150, then 162
EvalMulDivArm(tokens, st) ==
    LET f == Cur(st)
        pending == f.opstack # <<>> /\ Top(f.opstack).type \in {"OpMul", "OpDiv"}
        r == IF pending THEN reduce(f.stack, f.opstack)
             ELSE [stack |-> f.stack, opstack |-> f.opstack, panic |-> FALSE]
        g == [f EXCEPT !.stack = r.stack,
                       !.opstack = Append(r.opstack, At(tokens, st.pos))]
    IN  IF r.panic THEN EvalPanic(st)
        ELSE [SetCur(st, g) EXCEPT !.pos = st.pos + 1]

\* lines 151-153: step over the '(' and enter a nested invocation
EvalLeftParenArm(tokens, st) ==
    [st EXCEPT !.pos = st.pos + 1, !.frames = Append(st.frames, NewFrame)]

\* EvalBreakArm with the ')' consumed by the invocation that meets it
\* (the pos += 1 that line 157 has commented out)
EvalBreakArmConsume(tokens, st) ==
    LET f == Cur(st)
        r == reduce(f.stack, f.opstack)
        g == [f EXCEPT !.stack = r.stack, !.opstack = r.opstack, !.drained = TRUE]
        p == IF st.pos < Len(tokens) THEN st.pos + 1 ELSE st.pos
    IN  IF r.panic THEN EvalPanic(st) ELSE [SetCur(st, g) EXCEPT !.pos = p]

\* lines 132-134 or 156-159 (break), then the final drain of line 165
EvalBreakArm(tokens, st) ==
    LET f == Cur(st)
        r == reduce(f.stack, f.opstack)
        g == [f EXCEPT !.stack = r.stack, !.opstack = r.opstack, !.drained = TRUE]
    IN  IF r.panic THEN EvalPanic(st) ELSE SetCur(st, g)

\* EvalReturnArm with a default Value in place of the failing unwrap
EvalReturnArmDefault(tokens, st) ==
    LET f == Cur(st)
        v == IF f.stack = <<>> THEN Literal(<<"0">>) ELSE Top(f.stack)
    IN  IF Len(st.frames) = 1
        THEN [st EXCEPT !.done = TRUE, !.ret = v, !.frames = <<>>]
        ELSE LET c == Top(Pop(st.frames))
                 d == [c EXCEPT !.stack = Append(c.stack, v)]
             IN  [st EXCEPT !.pos = st.pos + 1,
                            !.frames = Append(Pop(Pop(st.frames)), d)]

\* line 167: stack.pop().unwrap(); in a nested invocation the caller then
\* pushes the Value (153) and steps over the token pos stands on (162)
EvalReturnArm(tokens, st) ==
    LET f == Cur(st)
    IN  IF f.stack = <<>> THEN EvalPanic(st)
        ELSE IF Len(st.frames) = 1
             THEN [st EXCEPT !.done = TRUE, !.ret = Top(f.stack), !.frames = <<>>]
             ELSE LET c == Top(Pop(st.frames))
                      d == [c EXCEPT !.stack = Append(c.stack, Top(f.stack))]
                  IN  [st EXCEPT !.pos = st.pos + 1,
                                 !.frames = Append(Pop(Pop(st.frames)), d)]

AtBreak(tokens, st) ==
    IF st.pos >= Len(tokens) THEN TRUE
    ELSE At(tokens, st.pos).type = "RightParen"

\* one step of the running invocation
EvalBody(tokens, st) ==
    IF Cur(st).drained THEN EvalReturnArm(tokens, st)
    ELSE IF AtBreak(tokens, st) THEN EvalBreakArm(tokens, st)
    ELSE LET ty == At(tokens, st.pos).type
         IN  CASE ty = "Number" -> EvalNumberArm(tokens, st)
               [] ty \in {"OpAdd", "OpSub"} -> EvalAddSubArm(tokens, st)
               [] ty \in {"OpMul", "OpDiv"} -> EvalMulDivArm(tokens, st)
               [] ty = "LeftParen" -> EvalLeftParenArm(tokens, st)

RECURSIVE EvalRun(_, _)
EvalRun(tokens, st) ==
    IF st.panic \/ st.done THEN st ELSE EvalRun(tokens, EvalBody(tokens, st))

eval_expression(tokens) == EvalRun(tokens, EvalInit)

(***************************************************************************)
(* eval_value (main.rs 170-179) as a function of the text.                 *)
(***************************************************************************)
eval_value(text) ==
    LET p == parse(text)
    IN  IF p.panic THEN Panic
        ELSE LET e == eval_expression(p.tokens)
             IN  IF e.panic THEN Panic ELSE ValueOf(e.ret)

(***************************************************************************)
(* Input texts: every text over Alphabet of at most MaxLen characters,     *)
(* every parenthesis-free expression of at most MaxOps operators over      *)
(* Operands, and every text Pre (Body) Post with one parenthesized group.  *)
(***************************************************************************)
Alphabet == {"1", "2", ".", "(", ")", "+", "-", "*", "/", " ", "x"}

Operators == {"+", "-", "*", "/"}

Operands == {<<"2">>, <<"3">>, <<"-", "5">>}

\* the text of length n whose characters are f[1] .. f[n]
RECURSIVE TextOf(_, _)
TextOf(f, n) == IF n = 0 THEN <<>> ELSE Append(TextOf(f, n - 1), f[n])

\* the expression  a[0] o[1] a[1] ... o[k] a[k]
RECURSIVE ChainOf(_, _, _)
ChainOf(a, o, k) ==
    IF k = 0 THEN a[0] ELSE ChainOf(a, o, k - 1) \o <<o[k]>> \o a[k]

\* group bodies, each with a literal of the same value
Bodies ==
    { <<<<"1", "+", "2">>, <<"3">>>>,
      <<<<"5", "-", "2">>, <<"3">>>>,
      <<<<"2", "*", "3">>, <<"6">>>>,
      <<<<"3", "/", "2">>, <<"1", ".", "5">>>>,
      <<<<"1", "-", "3">>, <<"-", "2">>>>,
      <<<<"(", "7", ")">>, <<"7">>>>,
      <<<<"4">>, <<"4">>>> }

Pres == {<<>>} \cup {<<"2", o>> : o \in Operators}

Posts == {<<>>} \cup {<<o, "3">> : o \in Operators}

Grouped(pre, body, post) == pre \o <<"(">> \o body \o <<")">> \o post

Groups == {Grouped(pre, b[1], post) : pre \in Pres, b \in Bodies, post \in Posts}

\* texts used when eval_value is called several times in a row
CallInputs ==
    { <<"-", "5">>, <<"5">>, <<"2", "-", "5">>, <<"(", "1", ")", "-", "5">>,
      <<"2", "*", "(", "3", "+", "1", ")">>, <<"3", "/", "2", " ">>,
      <<"1", "x">>, <<"2", "+">>, <<>> }

(***************************************************************************)
(* The state machine: one call of eval_value(input) at a time.             *)
(*   pc = "parse"  inside the loop of parse                                *)
(*   pc = "eval"   inside eval_expression                                  *)
(*   pc = "value"  before value.value() (178)                              *)
(*   pc = "done"   eval_value has returned result                          *)
(*   pc = "abort"  a panic has unwound the call                            *)
(* history is the sequence of finished calls.                              *)
(***************************************************************************)
NoResult == [t |-> "none", n |-> 0, d |-> 0]

Start(text) ==
    /\ input = text
    /\ pc = "parse"
    /\ pst = ParseInit
    /\ est = EvalInit
    /\ result = NoResult

InitText ==
    \E n \in 0..MaxLen : \E f \in [1..n -> Alphabet] : Start(TextOf(f, n))

InitChain ==
    \E k \in 0..MaxOps :
        \E a \in [0..k -> Operands], o \in [1..k -> Operators] :
            Start(ChainOf(a, o, k))

InitGroup == \E text \in Groups : Start(text)

Init ==
    /\ InitText \/ InitChain \/ InitGroup
    /\ history = <<>>

InParse(c) ==
    /\ pc = "parse"
    /\ pst.pos < Len(input)
    /\ c = At(input, pst.pos)

ParseStep(st) ==
    /\ pst' = st
    /\ UNCHANGED <<input, pc, est, result, history>>

ParseSpace == \E c \in {" "} : InParse(c) /\ ParseStep(ParseSpaceArm(input, pst))

ParsePunct ==
    \E c \in {"(", ")", "+", "*", "/"} :
        InParse(c) /\ ParseStep(ParsePunctArm(input, pst))

ParseMinus == \E c \in {"-"} : InParse(c) /\ ParseStep(ParseMinusArm(input, pst))

ParseDigit == \E c \in Digits : InParse(c) /\ ParseStep(ParseDigitArm(input, pst))

ParseUnknown ==
    /\ pc = "parse"
    /\ pst.pos < Len(input)
    /\ IsUnknown(At(input, pst.pos))
    /\ pst' = ParsePanicArm(input, pst)
    /\ pc' = "abort"
    /\ result' = Panic
    /\ UNCHANGED <<input, est, history>>

\* lines 56-58 and 93, then eval_value 174-175
ParseReturn ==
    /\ pc = "parse"
    /\ pst.pos >= Len(input)
    /\ pc' = "eval"
    /\ est' = EvalInit
    /\ UNCHANGED <<input, pst, result, history>>

EvalStep(st) ==
    /\ est' = st
    /\ pc' = IF st.panic THEN "abort" ELSE IF st.done THEN "value" ELSE "eval"
    /\ result' = IF st.panic THEN Panic ELSE result
    /\ UNCHANGED <<input, pst, history>>

InEval(types) ==
    /\ pc = "eval"
    /\ ~Cur(est).drained
    /\ ~AtBreak(pst.tokens, est)
    /\ At(pst.tokens, est.pos).type \in types

EvalNumber == InEval({"Number"}) /\ EvalStep(EvalNumberArm(pst.tokens, est))

EvalAddSub ==
    InEval({"OpAdd", "OpSub"}) /\ EvalStep(EvalAddSubArm(pst.tokens, est))

EvalMulDiv ==
    InEval({"OpMul", "OpDiv"}) /\ EvalStep(EvalMulDivArm(pst.tokens, est))

EvalLeftParen ==
    InEval({"LeftParen"}) /\ EvalStep(EvalLeftParenArm(pst.tokens, est))

EvalBreak ==
    /\ pc = "eval"
    /\ ~Cur(est).drained
    /\ AtBreak(pst.tokens, est)
    /\ EvalStep(EvalBreakArm(pst.tokens, est))

EvalReturn ==
    /\ pc = "eval"
    /\ Cur(est).drained
    /\ EvalStep(EvalReturnArm(pst.tokens, est))

\* eval_value line 178
Evaluate ==
    /\ pc = "value"
    /\ result' = ValueOf(est.ret)
    /\ pc' = IF result'.t = "panic" THEN "abort" ELSE "done"
    /\ UNCHANGED <<input, pst, est, history>>

Next ==
    \/ ParseSpace
    \/ ParsePunct
    \/ ParseMinus
    \/ ParseDigit
    \/ ParseUnknown
    \/ ParseReturn
    \/ EvalNumber
    \/ EvalAddSub
    \/ EvalMulDiv
    \/ EvalLeftParen
    \/ EvalBreak
    \/ EvalReturn
    \/ Evaluate

Spec == Init /\ [][Next]_vars

(***************************************************************************)
(* Several calls in a row: when a call has ended, the caller records it    *)
(* and calls eval_value again; each call builds its locals anew            *)
(* (50-54, 128-129, 174).                                                  *)
(***************************************************************************)
Finished == pc \in {"done", "abort"}

CallRecord ==
    [input |-> input,
     tokens |-> IF pst.panic THEN <<>> ELSE pst.tokens,
     result |-> result]

\* Call with last_token kept from the call before
CallStale ==
    /\ Finished
    /\ Len(history) < MaxCalls
    /\ history' = Append(history, CallRecord)
    /\ \E text \in CallInputs : input' = text
    /\ pc' = "parse"
    /\ pst' = [ParseInit EXCEPT !.last_token = pst.last_token]
    /\ est' = EvalInit
    /\ result' = NoResult

Call ==
    /\ Finished
    /\ Len(history) < MaxCalls
    /\ history' = Append(history, CallRecord)
    /\ \E text \in CallInputs : input' = text
    /\ pc' = "parse"
    /\ pst' = ParseInit
    /\ est' = EvalInit
    /\ result' = NoResult

InitCalls ==
    /\ \E text \in CallInputs : Start(text)
    /\ history = <<>>

NextCalls == Next \/ Call

SpecCalls == InitCalls /\ [][NextCalls]_vars

TypeOK ==
    /\ pc \in {"parse", "eval", "value", "done", "abort"}
    /\ result.t \in {"none", "fin", "inf", "nan", "panic"}

(***************************************************************************)
(* The grammar the properties speak of, read off the text independently of *)
(* parse:                                                                  *)
(*     expr   ::= term (op term)*          op ::= + | - | * | /            *)
(*     term   ::= number | -number | ( expr )                              *)
(*     number ::= digit+ [ . digit* ]                                      *)
(* with spaces allowed between the symbols.  RefScan reads a text in mode  *)
(* "term" (an operand is due) or "op" (an operator, a ')' or the end is    *)
(* due) and yields the symbols read and whether the text is an expr.       *)
(***************************************************************************)
RECURSIVE DigitsEnd(_, _)
DigitsEnd(t, i) ==
    IF i <= Len(t) /\ IsDigit(t[i]) THEN DigitsEnd(t, i + 1) ELSE i - 1

RECURSIVE RunEnd(_, _)
RunEnd(t, i) ==
    IF i <= Len(t) /\ (IsDigit(t[i]) \/ t[i] = ".") THEN RunEnd(t, i + 1) ELSE i - 1

\* loose = FALSE reads a number by the grammar; loose = TRUE takes any run of
\* digits and points for a number, so that only the structure is judged
NumStart(t, i, loose) == i <= Len(t) /\ (IsDigit(t[i]) \/ (loose /\ t[i] = "."))

NumEnd(t, i, loose) ==
    IF loose THEN RunEnd(t, i)
    ELSE LET a == DigitsEnd(t, i)
         IN  IF a < Len(t) /\ t[a + 1] = "." THEN DigitsEnd(t, a + 2) ELSE a

Item(k, text) == [k |-> k, text |-> text]

RECURSIVE RefScan(_, _, _, _, _, _)
RefScan(t, i, mode, depth, acc, loose) ==
    IF i > Len(t) THEN [ok |-> (mode = "op" /\ depth = 0), items |-> acc]
    ELSE LET c == t[i]
         IN  CASE c = " " -> RefScan(t, i + 1, mode, depth, acc, loose)
               [] mode = "term" /\ c = "(" ->
                    RefScan(t, i + 1, "term", depth + 1,
                            Append(acc, Item("(", <<>>)), loose)
               [] mode = "term" /\ NumStart(t, i, loose) ->
                    LET j == NumEnd(t, i, loose)
                    IN  RefScan(t, j + 1, "op", depth,
                                Append(acc, Item("num", SubSeq(t, i, j))), loose)
               [] mode = "term" /\ c = "-" /\ NumStart(t, i + 1, loose) ->
                    LET j == NumEnd(t, i + 1, loose)
                    IN  RefScan(t, j + 1, "op", depth,
                                Append(acc, Item("num", SubSeq(t, i, j))), loose)
               [] mode = "op" /\ c \in Operators ->
                    RefScan(t, i + 1, "term", depth,
                            Append(acc, Item("op", <<c>>)), loose)
               [] mode = "op" /\ c = ")" /\ depth > 0 ->
                    RefScan(t, i + 1, "op", depth - 1,
                            Append(acc, Item(")", <<>>)), loose)
               [] OTHER -> [ok |-> FALSE, items |-> acc]

Scan(t) == RefScan(t, 1, "term", 0, <<>>, FALSE)

\* the structure is wrong whatever is taken for a number
Malformed(t) == ~RefScan(t, 1, "term", 0, <<>>, TRUE).ok

WellFormed(t) == Scan(t).ok

ParenFree(t) == \A i \in 1..Len(t) : t[i] \notin {"(", ")"}

OpsOf(t) == {Scan(t).items[i].text[1] : i \in {j \in 1..Len(Scan(t).items) : Scan(t).items[j].k = "op"}}

NumOps(t) == Cardinality({j \in 1..Len(Scan(t).items) : Scan(t).items[j].k = "op"})

Apply(o, a, b) ==
    CASE o = "+" -> F32Add(a, b)
      [] o = "-" -> F32Sub(a, b)
      [] o = "*" -> F32Mul(a, b)
      [] o = "/" -> F32Div(a, b)

KindOf(o) ==
    CASE o = "+" -> "Add" [] o = "-" -> "Sub" [] o = "*" -> "Mul" [] o = "/" -> "Div"

\* the value of  n1 o2 n3 o4 n5 ...  when * and / bind tighter than + and -:
\* acc aop term is the sum so far, the pending + or -, and the running product
RECURSIVE PrecFold(_, _, _, _, _)
PrecFold(items, i, acc, aop, term) ==
    IF i > Len(items) THEN Apply(aop, acc, term)
    ELSE LET o == items[i].text[1]
             v == ParseF32(items[i + 1].text)
         IN  IF o \in {"*", "/"}
             THEN PrecFold(items, i + 2, acc, aop, Apply(o, term, v))
             ELSE PrecFold(items, i + 2, Apply(aop, acc, term), o, v)

RefPrec(t) ==
    LET items == Scan(t).items
    IN  PrecFold(items, 2, Fin(0, 1), "+", ParseF32(items[1].text))

\* the tree of  n1 o2 n3 o4 n5 ...  when the operators apply left to right
RECURSIVE LeftFold(_, _, _)
LeftFold(items, i, tree) ==
    IF i > Len(items) THEN tree
    ELSE LeftFold(items, i + 2,
                  Expression(KindOf(items[i].text[1]), tree, Literal(items[i + 1].text)))

RefLeftTree(t) ==
    LET items == Scan(t).items
    IN  LeftFold(items, 2, Literal(items[1].text))

RECURSIVE LeftValue(_, _, _)
LeftValue(items, i, acc) ==
    IF i > Len(items) THEN acc
    ELSE LeftValue(items, i + 2,
                   Apply(items[i].text[1], acc, ParseF32(items[i + 1].text)))

RefLeft(t) ==
    LET items == Scan(t).items
    IN  LeftValue(items, 2, ParseF32(items[1].text))

(***************************************************************************)
(* C1.  Precedence: for every well-formed parenthesis-free expression the  *)
(* call returns the value obtained when every * and / is applied before    *)
(* the + or - next to it.                                                  *)
(***************************************************************************)
C1_Precedence ==
    (Finished /\ WellFormed(input) /\ ParenFree(input))
        => (pc = "done" /\ result = RefPrec(input))

(***************************************************************************)
(* C2.  Left-to-right associativity: for a well-formed parenthesis-free    *)
(* chain whose operators are all in {+, -} or all in {*, /}, the tree      *)
(* returned by eval_expression nests to the left and the call returns the  *)
(* value of applying the operators strictly left to right.                 *)
(***************************************************************************)
SamePrecedence(t) == OpsOf(t) \subseteq {"+", "-"} \/ OpsOf(t) \subseteq {"*", "/"}

IsChain(t) == WellFormed(t) /\ ParenFree(t) /\ SamePrecedence(t)

C2_LeftToRight ==
    (Finished /\ IsChain(input))
        => /\ pc = "done"
           /\ est.ret = RefLeftTree(input)
           /\ result = RefLeft(input)

C2_Witness ==
    /\ pc = "done"
    /\ IsChain(input)
    /\ NumOps(input) >= 3
    /\ "-" \in OpsOf(input)
    /\ est.ret.l.kind = "Sub"
(***************************************************************************)
(* C3.  A parenthesized group counts as one literal: for a well-formed     *)
(* text holding a group (body), the call returns what it returns for the   *)
(* text with the group replaced by a literal of the body's value,          *)
(* whichever operator stands before or after the group.                    *)
(***************************************************************************)
GroupSplits(t) ==
    {ij \in (1..Len(t)) \X (1..Len(t)) :
        /\ ij[1] < ij[2]
        /\ t[ij[1]] = "("
        /\ t[ij[2]] = ")"
        /\ WellFormed(SubSeq(t, ij[1] + 1, ij[2] - 1))}

LitsFor(body) ==
    {b[2] : b \in {x \in Bodies : x[1] = body}}
        \cup (IF Len(Scan(body).items) = 1 THEN {Scan(body).items[1].text} ELSE {})

Replaced(t, ij, lit) == SubSeq(t, 1, ij[1] - 1) \o lit \o SubSeq(t, ij[2] + 1, Len(t))

C3_GroupAsLiteral ==
    (Finished /\ WellFormed(input)) =>
        \A ij \in GroupSplits(input) :
            LET body == SubSeq(input, ij[1] + 1, ij[2] - 1)
            IN  \A lit \in LitsFor(body) :
                    (eval_value(lit) = eval_value(body) /\ eval_value(lit) # Panic)
                        => result = eval_value(Replaced(input, ij, lit))

(***************************************************************************)
(* C4.  Every text that is not a well-formed expression (an unrecognized   *)
(* character, unbalanced parentheses, two operands with no operator        *)
(* between them, an operator missing an operand, no operand at all) makes  *)
(* the call abort.                                                         *)
(***************************************************************************)
C4_AbortsOnMalformed == (Finished /\ Malformed(input)) => pc = "abort"

(***************************************************************************)
(* C4 as amended.  The call aborts on every text that holds an             *)
(* unrecognized character, on every text without a token (empty or         *)
(* blank), and on every text with balanced parentheses that holds an empty *)
(* group.                                                                  *)
(***************************************************************************)
Recognized == Digits \cup {".", "(", ")", "+", "-", "*", "/", " "}

HasUnknown(t) == \E i \in 1..Len(t) : t[i] \notin Recognized

Blank(t) == \A i \in 1..Len(t) : t[i] = " "

RECURSIVE DepthOK(_, _, _)
DepthOK(t, i, depth) ==
    IF i > Len(t) THEN depth = 0
    ELSE IF t[i] = "(" THEN DepthOK(t, i + 1, depth + 1)
    ELSE IF t[i] = ")" THEN depth > 0 /\ DepthOK(t, i + 1, depth - 1)
    ELSE DepthOK(t, i + 1, depth)

Balanced(t) == DepthOK(t, 1, 0)

HasEmptyGroup(t) ==
    \E i, j \in 1..Len(t) :
        /\ i < j
        /\ t[i] = "("
        /\ t[j] = ")"
        /\ \A k \in (i + 1)..(j - 1) : t[k] = " "

C4_AbortsOnLexicalOrEmpty ==
    (Finished /\ (HasUnknown(input) \/ Blank(input)
                    \/ (Balanced(input) /\ HasEmptyGroup(input))))
        => pc = "abort"

C4_Witness ==
    /\ pc = "abort"
    /\ est.panic
    /\ ~HasUnknown(input)
    /\ Balanced(input)
    /\ HasEmptyGroup(input)
    /\ Len(pst.tokens) >= 3

(***************************************************************************)
(* C5.  A lone integer literal n, or "-" directly followed by n, gives one *)
(* Number token holding the text, a Literal and no Expression node, and    *)
(* the value n, respectively -n.                                           *)
(***************************************************************************)
DigitRun(t) == Len(t) > 0 /\ \A i \in 1..Len(t) : IsDigit(t[i])

RECURSIVE NatOf(_)
NatOf(t) == IF t = <<>> THEN 0 ELSE 10 * NatOf(Pop(t)) + DigitVal(Top(t))

Negated(t) == Len(t) > 1 /\ t[1] = "-" /\ DigitRun(Tail(t))

C5_LoneLiteral ==
    (Finished /\ (DigitRun(input) \/ Negated(input))) =>
        /\ pc = "done"
        /\ pst.tokens = <<Number(input)>>
        /\ est.ret = Literal(input)
        /\ result = IF Negated(input)
                    THEN [t |-> "fin", n |-> -NatOf(Tail(input)), d |-> 1]
                    ELSE [t |-> "fin", n |-> NatOf(input), d |-> 1]

C5_Witness == pc = "done" /\ Negated(input) /\ Len(input) >= 3 /\ result.n < -20

(***************************************************************************)
(* C6.  Idempotence: a text evaluated again, whatever was evaluated in     *)
(* between, gives the same tokens and the same result or abort.            *)
(***************************************************************************)
C6_Idempotent ==
    /\ \A i, j \in 1..Len(history) :
           history[i].input = history[j].input => history[i] = history[j]
    /\ Finished =>
           \A i \in 1..Len(history) :
               history[i].input = input => history[i] = CallRecord

C6_Witness ==
    /\ pc = "done"
    /\ Len(history) >= 2
    /\ history[1].input = input
    /\ history[2].input # input
    /\ history[1].result = result

(***************************************************************************)
(* C7.  The Mul/Div step with Mul or Div on top of the operator stack      *)
(* resolves exactly one pending operation: the operator stack loses only   *)
(* its top entry before the new operator is pushed, and the value stack    *)
(* shrinks by one.                                                         *)
(***************************************************************************)
PendingMulDiv ==
    /\ Cur(est).opstack # <<>>
    /\ Top(Cur(est).opstack).type \in {"OpMul", "OpDiv"}

C7_ResolvesOne ==
    [][(EvalMulDiv /\ PendingMulDiv /\ WellFormed(input)) =>
          /\ Cur(est').opstack =
                 Append(Pop(Cur(est).opstack), At(pst.tokens, est.pos))
          /\ Len(Cur(est').stack) = Len(Cur(est).stack) - 1]_vars

(***************************************************************************)
(* C8.  Minus disambiguation: the tokenizer emits OpSub exactly at a '-'   *)
(* whose most recently emitted token is a Number; at any other '-' it      *)
(* emits one Number token whose text is "-" followed by the run of digits  *)
(* and points that directly follows the '-'.                               *)
(***************************************************************************)
LastEmitted == IF pst.tokens = <<>> THEN None ELSE Top(pst.tokens)

RunAfter(t, i) == SubSeq(t, i + 1, RunEnd(t, i + 1))

C8_MinusDisambiguation ==
    [][(pc = "parse" /\ pst.pos < Len(input) /\ At(input, pst.pos) # " ") =>
          LET c == At(input, pst.pos)
              binary == c = "-" /\ LastEmitted.type = "Number"
          IN  /\ (c = "-") => Len(pst'.tokens) = Len(pst.tokens) + 1
              /\ Len(pst'.tokens) > Len(pst.tokens) =>
                     /\ (Top(pst'.tokens) = OpSub) <=> binary
                     /\ (c = "-" /\ ~binary) =>
                            Top(pst'.tokens) =
                                Number(<<"-">> \o RunAfter(input, pst.pos + 1))]_vars

C8_Witness ==
    /\ Len(pst.tokens) >= 2
    /\ pst.tokens[Len(pst.tokens) - 1].type = "RightParen"
    /\ Top(pst.tokens).type = "Number"
    /\ Len(Top(pst.tokens).text) >= 2
    /\ Top(pst.tokens).text[1] = "-"

(***************************************************************************)
(* C9.  When an invocation of eval_expression is about to return on a      *)
(* well-formed text, the final drain has left its operator stack empty and *)
(* its value stack with exactly one entry.                                 *)
(***************************************************************************)
C9_SingleValue ==
    (pc = "eval" /\ WellFormed(input) /\ Cur(est).drained) =>
        /\ Cur(est).opstack = <<>>
        /\ Len(Cur(est).stack) = 1

(***************************************************************************)
(* C10.  Once parse has returned, every Number token has a text that is a  *)
(* valid numeric literal: an optional leading '-', at least one digit, at  *)
(* most one decimal point.                                                 *)
(***************************************************************************)
NumberTexts == {pst.tokens[i].text : i \in {j \in 1..Len(pst.tokens) : pst.tokens[j].type = "Number"}}

DigitsAndPoints(u) == \A i \in 1..Len(u) : IsDigit(u[i]) \/ u[i] = "."

C10_ValidNumbers ==
    (pc # "parse" /\ ~pst.panic) =>
        \A x \in NumberTexts :
            LET u == IF x # <<>> /\ x[1] = "-" THEN Tail(x) ELSE x
            IN  /\ DigitsAndPoints(u)
                /\ \E i \in 1..Len(u) : IsDigit(u[i])
                /\ CountOf(u, ".") <= 1

(***************************************************************************)
(* C10 as amended.  Every Number token has a text made of an optional      *)
(* leading '-' and a run of digits and decimal points; without the '-'     *)
(* the run is not empty and starts with a digit.  (After a '-' the run may *)
(* be empty, and a run may hold several points.)                           *)
(***************************************************************************)
C10_NumberShape ==
    \A x \in NumberTexts :
        IF x # <<>> /\ x[1] = "-"
        THEN DigitsAndPoints(Tail(x))
        ELSE x # <<>> /\ IsDigit(x[1]) /\ DigitsAndPoints(x)

C10_Witness ==
    /\ pc = "eval"
    /\ \E x \in NumberTexts : CountOf(x, ".") >= 2
    /\ \E x \in NumberTexts : x[1] = "-" /\ \A i \in 1..Len(x) : ~IsDigit(x[i])

(***************************************************************************)
(* C11.  On a token sequence with balanced parentheses the ')' is not      *)
(* consumed by the invocation that meets it: the invocation leaves its     *)
(* loop with pos unchanged, a nested invocation returns with pos on a ')'  *)
(* at the nesting depth of the '(' that started it (so on the matching     *)
(* one), the caller then steps pos by exactly one, every other token       *)
(* steps pos by exactly one, and the outermost invocation returns with pos *)
(* equal to the number of tokens.                                          *)
(***************************************************************************)
CountType(tokens, p, type) ==
    Cardinality({i \in 1..p : tokens[i].type = type})

\* the number of '(' still open after the first p tokens
OpenBefore(tokens, p) ==
    CountType(tokens, p, "LeftParen") - CountType(tokens, p, "RightParen")

BalancedTokens(tokens) ==
    /\ \A p \in 0..Len(tokens) : OpenBefore(tokens, p) >= 0
    /\ OpenBefore(tokens, Len(tokens)) = 0

C11_ParenNotConsumed ==
    [][(pc = "eval" /\ BalancedTokens(pst.tokens) /\ ~est'.panic) =>
          /\ Len(est.frames) = 1 + OpenBefore(pst.tokens, est.pos)
          /\ EvalBreak => est'.pos = est.pos
          /\ EvalLeftParen =>
                 /\ est'.pos = est.pos + 1
                 /\ Len(est'.frames) = Len(est.frames) + 1
          /\ (EvalReturn /\ Len(est.frames) > 1) =>
                 /\ est.pos < Len(pst.tokens)
                 /\ At(pst.tokens, est.pos).type = "RightParen"
                 /\ est'.pos = est.pos + 1
                 /\ Len(est'.frames) = Len(est.frames) - 1
          /\ (EvalReturn /\ Len(est.frames) = 1) => est.pos = Len(pst.tokens)
          /\ (EvalNumber \/ EvalAddSub \/ EvalMulDiv) => est'.pos = est.pos + 1]_vars

C11_Witness ==
    /\ pc = "done"
    /\ BalancedTokens(pst.tokens)
    /\ est.pos = Len(pst.tokens)
    /\ \E i \in 1..(Len(pst.tokens) - 1) :
           pst.tokens[i].type = "LeftParen" /\ pst.tokens[i + 1].type = "LeftParen"

(***************************************************************************)
(* C12.  A text that holds a character outside digit . ( ) + - * / space   *)
(* makes parse abort: parse never returns a token sequence for it (the     *)
(* call never gets to eval_expression), and the only way out of parse is   *)
(* the panic, wherever the character stands.                               *)
(***************************************************************************)
C12_UnknownCharAborts ==
    HasUnknown(input) =>
        /\ pc \in {"parse", "abort"}
        /\ pc = "abort" => (pst.panic /\ result = Panic)
        /\ pc = "parse" => pst.pos < Len(input)
        /\ parse(input).panic

C12_Witness ==
    /\ pc = "abort"
    /\ pst.panic
    /\ pst.pos >= 1
    /\ At(input, pst.pos) \notin Recognized
    /\ At(input, pst.pos - 1) = "-"
    /\ Top(pst.tokens) = Number(<<"-">>)

(***************************************************************************)
(* C13.  The operator stack of an invocation never holds more than two     *)
(* operators; when it holds two, the lower one is OpAdd or OpSub and the   *)
(* upper one is OpMul or OpDiv, so it never holds two operators of the     *)
(* same precedence class.                                                  *)
(***************************************************************************)
OpStackShape(o) ==
    /\ Len(o) <= 2
    /\ \A i \in 1..Len(o) : o[i].type \in {"OpAdd", "OpSub", "OpMul", "OpDiv"}
    /\ Len(o) = 2 =>
           /\ o[1].type \in {"OpAdd", "OpSub"}
           /\ o[2].type \in {"OpMul", "OpDiv"}

C13_OpStackAtMostTwo ==
    \A i \in 1..Len(est.frames) : OpStackShape(est.frames[i].opstack)

C13_Witness ==
    /\ pc = "eval"
    /\ Len(Cur(est).opstack) = 2
    /\ Len(Cur(est).stack) = 3
    /\ Cur(est).stack[1].kind # "Literal"

(***************************************************************************)
(* C14.  Termination.  Every iteration of the loop of parse moves its scan *)
(* position forward by at least one and never past the end of the text,    *)
(* the unary-minus and number arms included; every token handled by        *)
(* eval_expression moves pos forward by exactly one and pos never moves    *)
(* back; every step of the call lowers a natural-number rank, so a call    *)
(* takes at most Rank steps; and a loop that has not ended can always take *)
(* its next iteration, so a call ends by a return or by an abort.          *)
(***************************************************************************)
Remaining ==
    IF est.pos < Len(pst.tokens) THEN Len(pst.tokens) - est.pos ELSE 0

Rank ==
    CASE pc = "parse" -> 5 * Len(input) + 6 - pst.pos
      [] pc = "eval" ->
             4 * Remaining + 2 * Len(est.frames)
                 + (IF Cur(est).drained THEN 0 ELSE 1) + 2
      [] pc = "value" -> 1
      [] OTHER -> 0

ParseProgress ==
    (pc = "parse" /\ pst.pos < Len(input) /\ ~pst'.panic) =>
        /\ pst'.pos >= pst.pos + 1
        /\ pst'.pos <= Len(input)

EvalProgress ==
    (pc = "eval" /\ ~est'.panic) =>
        /\ est'.pos >= est.pos
        /\ (EvalNumber \/ EvalAddSub \/ EvalMulDiv \/ EvalLeftParen) =>
               est'.pos = est.pos + 1

\* One more iteration of either loop can always be taken until it has ended.
LoopsRun ==
    /\ pc = "parse" =>
           ENABLED (ParseSpace \/ ParsePunct \/ ParseMinus \/ ParseDigit
                        \/ ParseUnknown \/ ParseReturn)
    /\ pc = "eval" =>
           ENABLED (EvalNumber \/ EvalAddSub \/ EvalMulDiv \/ EvalLeftParen
                        \/ EvalBreak \/ EvalReturn)

C14_Terminates ==
    /\ [][ParseProgress /\ EvalProgress /\ Rank' < Rank]_vars
    /\ [](Rank >= 0)
    /\ []LoopsRun

C14_Witness ==
    /\ pc = "done"
    /\ Len(pst.tokens) >= 3
    /\ Len(pst.tokens) < Len(input)
    /\ est.pos = Len(pst.tokens)
    /\ \E i \in 1..Len(pst.tokens) :
           /\ pst.tokens[i].type = "Number"
           /\ Len(pst.tokens[i].text) >= 2
           /\ pst.tokens[i].text[1] = "-"
           /\ \E j \in 1..(i - 1) : pst.tokens[j].type = "LeftParen"

====
